---- MODULE Spec2Model ----
(***************************************************************************)
(* configify-consul: a configuration source backed by the Consul key/value *)
(* store.  NewSource loads the values once, synchronously, then a          *)
(* background goroutine (listen) re-loads them every RefreshInterval until *)
(* the context is cancelled.  Typed accessors read the current map and     *)
(* fall back to the Defaults source when a key is absent.                  *)
(*                                                                         *)
(* Strings are sequences of one-character strings, so that qualification,  *)
(* prefix listing, trimming and parsing are computed, not assumed.         *)
(***************************************************************************)
EXTENDS Integers, Sequences, FiniteSets, TLC

VARIABLES
    storeKV,      \* the Consul KV store: key -> raw value
    storeIndex,   \* the store's modify index (meta.LastIndex of a fresh list)
    ctor,         \* NewSource: "new" | "refresh" | "ready" | "failed"
    options,      \* consulSource.options (configify.Options)
    values,       \* consulSource.values
    prev,         \* the map consulSource.values pointed to before the swap of the running refresh
    lastIndex,    \* consulSource.lastIndex
    watcher,      \* consulSource.watcher ("nil" or a callback)
    loop,         \* listen's goroutine: "none" | "select" | "refresh" | "exit"
    rpc,          \* position inside refresh(): "idle" | "resp" | "idx" | "vals" | "cb"
    resp,         \* what kv.List returned to the refresh in progress
    timerFired,   \* the channel of time.After holds a value
    cancelled,    \* options.Context.Done() is closed
    unflushed,    \* entries of the newest map whose stores other goroutines do not see yet
    fired,        \* callback -> number of times refresh invoked it
    ret           \* what the last accessor call returned to its caller

vars == <<storeKV, storeIndex, ctor, options, values, prev, lastIndex, watcher, loop,
          rpc, resp, timerFired, cancelled, unflushed, fired, ret>>

----------------------------------------------------------------------------
(* Bounds of the model *)

\* the store's modify index never exceeds this (puts and deletes stop there)
MaxIndex == 3

----------------------------------------------------------------------------
(* Strings *)

Space == {" ", "\t", "\n"}

RECURSIVE TrimLeft(_)
TrimLeft(s) ==
    IF s # <<>> /\ Head(s) \in Space THEN TrimLeft(Tail(s)) ELSE s

RECURSIVE TrimRight(_)
TrimRight(s) ==
    IF s # <<>> /\ s[Len(s)] \in Space THEN TrimRight(SubSeq(s, 1, Len(s) - 1)) ELSE s

\* strings.TrimSpace
TrimSpace(s) == TrimRight(TrimLeft(s))

HasPrefix(s, p) == Len(p) <= Len(s) /\ SubSeq(s, 1, Len(p)) = p

\* configify.Namespace.Qualify
Qualify(ns, key) ==
    IF ns.Name # <<>> THEN ns.Name \o ns.Delimiter \o key ELSE key

----------------------------------------------------------------------------
(* The universe the inputs are drawn from *)

Slash == <<"/">>
NsF   == <<"F">>
KeyH  == <<"H">>
KeyFH == <<"F", "/", "H">>
KeyBH == <<"B", "/", "H">>

\* keys that exist in, or are put into, the store
StoreKeys == {KeyFH, KeyBH}
\* raw values written to the store (one with surrounding whitespace)
StoreVals == {<<"a">>, <<" ", "b", " ">>}
\* keys the callers ask for
GetKeys == {KeyH, KeyFH}
\* namespace names given to NewSource
NsNames == {<<>>, NsF}
\* configify.Context option: absent or a context
Contexts == {"nil", "ctx"}
\* configify.Address option: absent, rejected by api.NewClient, nothing listens there, a live agent
Addresses == {"", "bad", "down", "ok"}
\* callbacks given to Watch
Callbacks == {"a", "b"}

\* the store as the test suite's resetStore leaves it
InitKV == (KeyFH :> <<"a">>) @@ (KeyBH :> <<"a">>)

Restrict(f, S) == [k \in S |-> f[k]]

----------------------------------------------------------------------------
(* configify.Massage: string to typed value, (zero, FALSE) when it fails.   *)
(* Numbers are unsigned decimals with an optional fraction, durations are  *)
(* whole hours, minutes and seconds (counted in seconds), times are        *)
(* YYYY-MM-DD dates.                                                       *)

Digit == ("0" :> 0) @@ ("1" :> 1) @@ ("2" :> 2) @@ ("3" :> 3) @@ ("4" :> 4) @@
         ("5" :> 5) @@ ("6" :> 6) @@ ("7" :> 7) @@ ("8" :> 8) @@ ("9" :> 9)

IsDigits(s) == s # <<>> /\ \A i \in 1..Len(s) : s[i] \in DOMAIN Digit

RECURSIVE ParseNat(_)
ParseNat(s) ==
    IF s = <<>> THEN 0
    ELSE 10 * ParseNat(SubSeq(s, 1, Len(s) - 1)) + Digit[s[Len(s)]]

\* position of the first ch in s, 0 when there is none
IndexOf(s, ch) ==
    IF \E i \in 1..Len(s) : s[i] = ch
    THEN CHOOSE i \in 1..Len(s) : s[i] = ch /\ \A j \in 1..(i - 1) : s[j] # ch
    ELSE 0

IntPart(s)  == IF IndexOf(s, ".") = 0 THEN s ELSE SubSeq(s, 1, IndexOf(s, ".") - 1)
FracPart(s) == IF IndexOf(s, ".") = 0 THEN <<>> ELSE SubSeq(s, IndexOf(s, ".") + 1, Len(s))
IsNumber(s) == /\ IsDigits(IntPart(s))
               /\ IndexOf(s, ".") # 0 => IsDigits(FracPart(s))

\* a float is num / 10^scale
FloatZero == [num |-> 0, scale |-> 0]

StringToFloat64(s) ==
    IF IsNumber(s)
    THEN [val |-> [num |-> ParseNat(IntPart(s) \o FracPart(s)), scale |-> Len(FracPart(s))],
          ok  |-> TRUE]
    ELSE [val |-> FloatZero, ok |-> FALSE]

\* "12.345" reads as 12: the fraction is dropped
StringToInt64(s) ==
    IF IsNumber(s) THEN [val |-> ParseNat(IntPart(s)), ok |-> TRUE]
    ELSE [val |-> 0, ok |-> FALSE]

StringToUint64(s) ==
    IF IsNumber(s) THEN [val |-> ParseNat(IntPart(s)), ok |-> TRUE]
    ELSE [val |-> 0, ok |-> FALSE]

BoolTrue  == {<<"t", "r", "u", "e">>, <<"T", "R", "U", "E">>}
BoolFalse == {<<"f", "a", "l", "s", "e">>, <<"F", "A", "L", "S", "E">>}

StringToBool(s) ==
    IF s \in BoolTrue THEN [val |-> TRUE, ok |-> TRUE]
    ELSE IF s \in BoolFalse THEN [val |-> FALSE, ok |-> TRUE]
    ELSE [val |-> FALSE, ok |-> FALSE]

\* "a, b" reads as <<"a", "b">>: split at the commas, each piece trimmed
RECURSIVE SplitTrim(_)
SplitTrim(s) ==
    IF IndexOf(s, ",") = 0 THEN <<TrimSpace(s)>>
    ELSE <<TrimSpace(SubSeq(s, 1, IndexOf(s, ",") - 1))>>
         \o SplitTrim(SubSeq(s, IndexOf(s, ",") + 1, Len(s)))

StringToSlice(s) == [val |-> SplitTrim(s), ok |-> TRUE]

UnitSeconds == ("h" :> 3600) @@ ("m" :> 60) @@ ("s" :> 1)

\* position of the first unit letter in s, 0 when there is none
UnitAt(s) ==
    IF \E i \in 1..Len(s) : s[i] \in DOMAIN UnitSeconds
    THEN CHOOSE i \in 1..Len(s) :
            s[i] \in DOMAIN UnitSeconds /\ \A j \in 1..(i - 1) : s[j] \notin DOMAIN UnitSeconds
    ELSE 0

RECURSIVE IsDuration(_)
IsDuration(s) ==
    /\ UnitAt(s) > 1
    /\ IsDigits(SubSeq(s, 1, UnitAt(s) - 1))
    /\ UnitAt(s) = Len(s) \/ IsDuration(SubSeq(s, UnitAt(s) + 1, Len(s)))

RECURSIVE DurationOf(_)
DurationOf(s) ==
    IF s = <<>> THEN 0
    ELSE ParseNat(SubSeq(s, 1, UnitAt(s) - 1)) * UnitSeconds[s[UnitAt(s)]]
         + DurationOf(SubSeq(s, UnitAt(s) + 1, Len(s)))

StringToDuration(s) ==
    IF IsDuration(s) THEN [val |-> DurationOf(s), ok |-> TRUE]
    ELSE [val |-> 0, ok |-> FALSE]

\* time.Time{}
TimeZero == [year |-> 0, month |-> 0, day |-> 0]

IsDate(s) == /\ Len(s) = 10
             /\ s[5] = "-" /\ s[8] = "-"
             /\ IsDigits(SubSeq(s, 1, 4)) /\ IsDigits(SubSeq(s, 6, 7)) /\ IsDigits(SubSeq(s, 9, 10))

StringToTime(s) ==
    IF IsDate(s)
    THEN [val |-> [year  |-> ParseNat(SubSeq(s, 1, 4)),
                   month |-> ParseNat(SubSeq(s, 6, 7)),
                   day   |-> ParseNat(SubSeq(s, 9, 10))],
          ok  |-> TRUE]
    ELSE [val |-> TimeZero, ok |-> FALSE]

----------------------------------------------------------------------------
(* Go's integer conversions: the low w bits, two's complement *)

Pow2(w) == CASE w = 8 -> 256 [] w = 16 -> 65536

\* uint8(n), uint16(n); uint(n), uint32(n) and uint64(n) keep every modelled value
ToUnsigned(n, w) == IF w >= 32 THEN n ELSE n % Pow2(w)

\* int8(n), int16(n); int(n), int32(n) and int64(n) keep every modelled value
ToSigned(n, w) ==
    IF w >= 32 THEN n
    ELSE IF n % Pow2(w) >= Pow2(w) \div 2 THEN (n % Pow2(w)) - Pow2(w) ELSE n % Pow2(w)

\* float32(f): every modelled number is kept
ToFloat32(f) == f

----------------------------------------------------------------------------
(* The accessor kinds and the Defaults source *)

Kinds == {"String", "StringSlice", "Int", "Int8", "Int16", "Int32", "Int64",
          "Uint", "Uint8", "Uint16", "Uint32", "Uint64",
          "Float32", "Float64", "Bool", "Duration", "Time"}

Zero(kind) ==
    CASE kind \in {"String", "StringSlice"} -> <<>>
      [] kind \in {"Float32", "Float64"}    -> FloatZero
      [] kind = "Bool"                      -> FALSE
      [] kind = "Time"                      -> TimeZero
      [] OTHER                              -> 0

\* a value of each kind that no failed parse produces, for the Defaults source
Sample(kind) ==
    CASE kind = "String"                    -> <<"d">>
      [] kind = "StringSlice"               -> <<<<"d">>>>
      [] kind \in {"Float32", "Float64"}    -> [num |-> 75, scale |-> 1]
      [] kind = "Bool"                      -> TRUE
      [] kind = "Time"                      -> [year |-> 2020, month |-> 1, day |-> 2]
      [] OTHER                              -> 7

\* configify.Empty(): the Defaults source NewSource starts from
EmptyDefaults == {}

\* a Defaults source is the set of keys it holds; Defaults.<Kind>(key)
DefaultsGet(d, kind, key) ==
    IF key \in d THEN [val |-> Sample(kind), ok |-> TRUE]
    ELSE [val |-> Zero(kind), ok |-> FALSE]

----------------------------------------------------------------------------
(* The Consul client *)

\* api.KV.List(prefix, nil) against a store holding kv at modify index idx
KVList(kv, idx, prefix) ==
    [err   |-> FALSE,
     pairs |-> Restrict(kv, {k \in DOMAIN kv : HasPrefix(k, prefix)}),
     index |-> idx]

ListError == [err |-> TRUE, pairs |-> <<>>, index |-> 0]

NoResp == [err |-> FALSE, pairs |-> <<>>, index |-> 0]

\* Every outcome of one kv.List call: a transport error, the store's current
\* state, or (default consistency mode) the state a lagging server still has.
ListOutcomes(address, prefix) ==
    IF address = "down" THEN {ListError}
    ELSE {ListError, KVList(storeKV, storeIndex, prefix)}
         \cup (IF storeIndex > 1 THEN {KVList(InitKV, 1, prefix)} ELSE {})

----------------------------------------------------------------------------
(* consulSource *)

\* the receiver of a method with a value receiver: a copy of the struct
Self == [values |-> values, options |-> options]

\* the copy a goroutine other than the refreshing one obtains: the map's
\* pointer is read whole, the entries stored into the new map without any
\* synchronisation may not be visible yet
Reader == [values  |-> Restrict(values, DOMAIN values \ unflushed),
           options |-> options]

\* mutant: the key is looked up as given, whatever the namespace
lookup_Unqualified(c, key) ==
    IF key \in DOMAIN c.values
    THEN [val |-> TrimSpace(c.values[key]), ok |-> TRUE]
    ELSE [val |-> <<>>, ok |-> FALSE]

lookup(c, key) ==
    LET q == Qualify(c.options.Namespace, key) IN
    IF q \in DOMAIN c.values
    THEN [val |-> TrimSpace(c.values[q]), ok |-> TRUE]
    ELSE [val |-> <<>>, ok |-> FALSE]

String(c, key) ==
    LET l == lookup(c, key) IN
    IF ~l.ok THEN DefaultsGet(c.options.Defaults, "String", key)
    ELSE [val |-> l.val, ok |-> TRUE]

StringSlice(c, key) ==
    LET l == lookup(c, key) IN
    IF ~l.ok THEN DefaultsGet(c.options.Defaults, "StringSlice", key)
    ELSE StringToSlice(l.val)

\* consulSource.Int (Int names the integers here)
GetInt(c, key) ==
    LET l == lookup(c, key)
        n == StringToInt64(l.val) IN
    IF ~l.ok THEN DefaultsGet(c.options.Defaults, "Int", key)
    ELSE [val |-> ToSigned(n.val, 64), ok |-> n.ok]

\* mutant: a value that does not parse falls back to the Defaults source
Int8_DefaultOnParseFailure(c, key) ==
    LET l == lookup(c, key)
        n == StringToInt64(l.val) IN
    IF ~l.ok \/ ~n.ok THEN DefaultsGet(c.options.Defaults, "Int8", key)
    ELSE [val |-> ToSigned(n.val, 8), ok |-> n.ok]

Int8(c, key) ==
    LET l == lookup(c, key)
        n == StringToInt64(l.val) IN
    IF ~l.ok THEN DefaultsGet(c.options.Defaults, "Int8", key)
    ELSE [val |-> ToSigned(n.val, 8), ok |-> n.ok]

\* mutant: the Defaults source is asked for the qualified key
Int16_QualifiedDefault(c, key) ==
    LET l == lookup(c, key)
        n == StringToInt64(l.val) IN
    IF ~l.ok THEN DefaultsGet(c.options.Defaults, "Int16", Qualify(c.options.Namespace, key))
    ELSE [val |-> ToSigned(n.val, 16), ok |-> n.ok]

Int16(c, key) ==
    LET l == lookup(c, key)
        n == StringToInt64(l.val) IN
    IF ~l.ok THEN DefaultsGet(c.options.Defaults, "Int16", key)
    ELSE [val |-> ToSigned(n.val, 16), ok |-> n.ok]

Int32(c, key) ==
    LET l == lookup(c, key)
        n == StringToInt64(l.val) IN
    IF ~l.ok THEN DefaultsGet(c.options.Defaults, "Int32", key)
    ELSE [val |-> ToSigned(n.val, 32), ok |-> n.ok]

Int64(c, key) ==
    LET l == lookup(c, key) IN
    IF ~l.ok THEN DefaultsGet(c.options.Defaults, "Int64", key)
    ELSE StringToInt64(l.val)

Uint(c, key) ==
    LET l == lookup(c, key)
        n == StringToUint64(l.val) IN
    IF ~l.ok THEN DefaultsGet(c.options.Defaults, "Uint", key)
    ELSE [val |-> ToUnsigned(n.val, 64), ok |-> n.ok]

\* mutant: a number that does not fit 8 bits is a failure
Uint8_RangeChecked(c, key) ==
    LET l == lookup(c, key)
        n == StringToUint64(l.val) IN
    IF ~l.ok THEN DefaultsGet(c.options.Defaults, "Uint8", key)
    ELSE IF n.val >= Pow2(8) THEN [val |-> 0, ok |-> FALSE]
    ELSE [val |-> n.val, ok |-> n.ok]

Uint8(c, key) ==
    LET l == lookup(c, key)
        n == StringToUint64(l.val) IN
    IF ~l.ok THEN DefaultsGet(c.options.Defaults, "Uint8", key)
    ELSE [val |-> ToUnsigned(n.val, 8), ok |-> n.ok]

Uint16(c, key) ==
    LET l == lookup(c, key)
        n == StringToUint64(l.val) IN
    IF ~l.ok THEN DefaultsGet(c.options.Defaults, "Uint16", key)
    ELSE [val |-> ToUnsigned(n.val, 16), ok |-> n.ok]

Uint32(c, key) ==
    LET l == lookup(c, key)
        n == StringToUint64(l.val) IN
    IF ~l.ok THEN DefaultsGet(c.options.Defaults, "Uint32", key)
    ELSE [val |-> ToUnsigned(n.val, 32), ok |-> n.ok]

Uint64(c, key) ==
    LET l == lookup(c, key) IN
    IF ~l.ok THEN DefaultsGet(c.options.Defaults, "Uint64", key)
    ELSE StringToUint64(l.val)

Float32(c, key) ==
    LET l == lookup(c, key)
        n == StringToFloat64(l.val) IN
    IF ~l.ok THEN DefaultsGet(c.options.Defaults, "Float32", key)
    ELSE [val |-> ToFloat32(n.val), ok |-> n.ok]

Float64(c, key) ==
    LET l == lookup(c, key) IN
    IF ~l.ok THEN DefaultsGet(c.options.Defaults, "Float64", key)
    ELSE StringToFloat64(l.val)

Bool(c, key) ==
    LET l == lookup(c, key) IN
    IF ~l.ok THEN DefaultsGet(c.options.Defaults, "Bool", key)
    ELSE StringToBool(l.val)

Duration(c, key) ==
    LET l == lookup(c, key) IN
    IF ~l.ok THEN DefaultsGet(c.options.Defaults, "Duration", key)
    ELSE StringToDuration(l.val)

Time(c, key) ==
    LET l == lookup(c, key) IN
    IF ~l.ok THEN DefaultsGet(c.options.Defaults, "Time", key)
    ELSE StringToTime(l.val)

\* the accessor of each kind
Accessor(kind, c, key) ==
    CASE kind = "String" -> String(c, key)
      [] kind = "StringSlice" -> StringSlice(c, key)
      [] kind = "Int" -> GetInt(c, key)
      [] kind = "Int8" -> Int8(c, key)
      [] kind = "Int16" -> Int16(c, key)
      [] kind = "Int32" -> Int32(c, key)
      [] kind = "Int64" -> Int64(c, key)
      [] kind = "Uint" -> Uint(c, key)
      [] kind = "Uint8" -> Uint8(c, key)
      [] kind = "Uint16" -> Uint16(c, key)
      [] kind = "Uint32" -> Uint32(c, key)
      [] kind = "Uint64" -> Uint64(c, key)
      [] kind = "Float32" -> Float32(c, key)
      [] kind = "Float64" -> Float64(c, key)
      [] kind = "Bool" -> Bool(c, key)
      [] kind = "Duration" -> Duration(c, key)
      [] kind = "Time" -> Time(c, key)

----------------------------------------------------------------------------
(* The store, changed by other programs *)

\* mutant: a put into the store is written through to the source's map
StorePut_WriteThrough(k, v) ==
    /\ storeIndex < MaxIndex
    /\ storeKV' = [q \in DOMAIN storeKV \cup {k} |-> IF q = k THEN v ELSE storeKV[q]]
    /\ storeIndex' = storeIndex + 1
    /\ values' = IF ctor = "ready" THEN storeKV' ELSE values
    /\ UNCHANGED <<prev, ctor, options, lastIndex, watcher, loop, rpc, resp,
                   timerFired, cancelled, unflushed, fired, ret>>

StorePut(k, v) ==
    /\ storeIndex < MaxIndex
    /\ storeKV' = [q \in DOMAIN storeKV \cup {k} |-> IF q = k THEN v ELSE storeKV[q]]
    /\ storeIndex' = storeIndex + 1
    /\ UNCHANGED <<prev, ctor, options, values, lastIndex, watcher, loop, rpc, resp,
                   timerFired, cancelled, unflushed, fired, ret>>

StoreDelete(k) ==
    /\ storeIndex < MaxIndex
    /\ k \in DOMAIN storeKV
    /\ storeKV' = Restrict(storeKV, DOMAIN storeKV \ {k})
    /\ storeIndex' = storeIndex + 1
    /\ UNCHANGED <<prev, ctor, options, values, lastIndex, watcher, loop, rpc, resp,
                   timerFired, cancelled, unflushed, fired, ret>>

----------------------------------------------------------------------------
(* NewSource *)

\* durations are counted in milliseconds
Second == 1000

\* RefreshInterval: 10 * time.Second, the value before the options are applied
DefaultInterval == 10 * Second

\* the intervals a caller asks for with configify.RefreshInterval(d)
Intervals == {0, 50, Second, 5 * Second}

NoOptions == [Context |-> "nil", Address |-> "",
              Namespace |-> [Name |-> <<>>, Delimiter |-> Slash],
              Defaults |-> EmptyDefaults, RefreshInterval |-> 0]

\* the options struct after apply(opts, defaults)
Applied(ctx, addr, name, dflt) ==
    [Context |-> ctx, Address |-> addr,
     Namespace |-> [Name |-> name, Delimiter |-> Slash],
     Defaults |-> dflt, RefreshInterval |-> DefaultInterval]

\* the option configify.RefreshInterval(d), applied to the options struct
RefreshInterval(o, d) == [o EXCEPT !.RefreshInterval = d]

\* mutant: construction registers a callback before the first refresh
NewSource_WithWatcher(ctx, addr, name, dflt) ==
    /\ ctor = "new"
    /\ options' = Applied(ctx, addr, name, dflt)
    /\ ctor' = IF ctx = "nil" \/ addr = "" \/ addr = "bad" THEN "failed" ELSE "refresh"
    /\ watcher' = "a"
    /\ UNCHANGED <<prev, storeKV, storeIndex, values, lastIndex, loop, rpc, resp,
                   timerFired, cancelled, unflushed, fired, ret>>

\* mutant: the address option is not checked
NewSource_AnyAddress(ctx, addr, name, dflt) ==
    /\ ctor = "new"
    /\ options' = Applied(ctx, addr, name, dflt)
    /\ ctor' = IF ctx = "nil" \/ addr = "bad" THEN "failed" ELSE "refresh"
    /\ UNCHANGED <<prev, storeKV, storeIndex, values, lastIndex, watcher, loop, rpc, resp,
                   timerFired, cancelled, unflushed, fired, ret>>

\* NewSource up to the call of source.refresh(): the three error returns, or
\* the new consulSource (values nil, lastIndex 0, watcher nil)
NewSource(ctx, addr, name, dflt) ==
    /\ ctor = "new"
    /\ options' = Applied(ctx, addr, name, dflt)
    /\ ctor' = IF ctx = "nil" \/ addr = "" \/ addr = "bad" THEN "failed" ELSE "refresh"
    /\ UNCHANGED <<prev, storeKV, storeIndex, values, lastIndex, watcher, loop, rpc, resp,
                   timerFired, cancelled, unflushed, fired, ret>>

\* NewSource called with the option RefreshInterval(d) among its options
NewSourceEvery(ctx, addr, name, dflt, d) ==
    /\ ctor = "new"
    /\ options' = RefreshInterval(Applied(ctx, addr, name, dflt), d)
    /\ ctor' = IF ctx = "nil" \/ addr = "" \/ addr = "bad" THEN "failed" ELSE "refresh"
    /\ UNCHANGED <<prev, storeKV, storeIndex, values, lastIndex, watcher, loop, rpc, resp,
                   timerFired, cancelled, unflushed, fired, ret>>

----------------------------------------------------------------------------
(* refresh *)

\* refresh() is running, in NewSource or in the goroutine of listen
Refreshing == ctor = "refresh" \/ loop = "refresh"

\* refresh() returns (the map of before the swap is no longer told apart). In NewSource, listen() then starts the goroutine, which
\* arms its timer and waits, and NewSource returns the source and a nil
\* error. In the goroutine, the loop arms a new timer and waits; the runtime's
\* locks in select make every store of the refresh visible.
RefreshReturn ==
    /\ rpc' = "idle"
    /\ resp' = NoResp
    /\ unflushed' = {}
    /\ prev' = values
    /\ ctor' = "ready"
    /\ loop' = "select"
    /\ timerFired' = FALSE

\* pairs, meta, err := c.kv.List(c.options.Namespace.Name, nil)
RefreshList ==
    /\ Refreshing /\ rpc = "idle"
    /\ \E r \in ListOutcomes(options.Address, options.Namespace.Name) : resp' = r
    /\ rpc' = "resp"
    /\ UNCHANGED <<prev, storeKV, storeIndex, ctor, options, values, lastIndex, watcher, loop,
                   timerFired, cancelled, unflushed, fired, ret>>

\* refresh's check with another staleness test, and another map kept on error
RefreshCheckIf(stale, kept) ==
    /\ Refreshing /\ rpc = "resp"
    /\ IF resp.err
       THEN /\ RefreshReturn
            /\ values' = kept
            /\ UNCHANGED lastIndex
       ELSE IF stale
       THEN /\ RefreshReturn
            /\ UNCHANGED <<values, lastIndex>>
       ELSE /\ lastIndex' = resp.index
            /\ rpc' = "idx"
            /\ UNCHANGED <<ctor, loop, resp, timerFired, unflushed, values, prev>>
    /\ UNCHANGED <<storeKV, storeIndex, options, watcher, cancelled, fired, ret>>

\* mutant: meta.LastIndex < c.lastIndex, an unchanged store is applied again
RefreshCheck_Lt == RefreshCheckIf(resp.index < lastIndex, values)

\* mutant: no staleness test at all
RefreshCheck_NoStale == RefreshCheckIf(FALSE, values)

\* mutant: meta.LastIndex == c.lastIndex, an older response is applied
RefreshCheck_Eq == RefreshCheckIf(resp.index = lastIndex, values)

\* mutant: a failed list empties the map
RefreshCheck_ClearOnError == RefreshCheckIf(resp.index <= lastIndex, <<>>)

\* mutant: a list that fails in NewSource makes NewSource fail
RefreshCheck_FailConstruction ==
    /\ Refreshing /\ rpc = "resp"
    /\ IF resp.err /\ ctor = "refresh"
       THEN /\ rpc' = "idle" /\ resp' = NoResp /\ ctor' = "failed"
            /\ UNCHANGED <<loop, timerFired, unflushed, prev, lastIndex>>
       ELSE IF resp.err \/ resp.index <= lastIndex
       THEN /\ RefreshReturn
            /\ UNCHANGED lastIndex
       ELSE /\ lastIndex' = resp.index
            /\ rpc' = "idx"
            /\ UNCHANGED <<ctor, loop, resp, timerFired, unflushed, prev>>
    /\ UNCHANGED <<storeKV, storeIndex, options, values, watcher, cancelled, fired, ret>>

\* mutant: a list that fails in the goroutine ends the goroutine
RefreshCheck_ExitOnError ==
    /\ Refreshing /\ rpc = "resp"
    /\ IF resp.err /\ loop = "refresh"
       THEN /\ rpc' = "idle" /\ resp' = NoResp /\ loop' = "exit"
            /\ UNCHANGED <<ctor, timerFired, unflushed, prev, lastIndex>>
       ELSE IF resp.err \/ resp.index <= lastIndex
       THEN /\ RefreshReturn
            /\ UNCHANGED lastIndex
       ELSE /\ lastIndex' = resp.index
            /\ rpc' = "idx"
            /\ UNCHANGED <<ctor, loop, resp, timerFired, unflushed, prev>>
    /\ UNCHANGED <<storeKV, storeIndex, options, values, watcher, cancelled, fired, ret>>

\* the two early returns, else updatedValues is built and c.lastIndex stored
RefreshCheck ==
    /\ Refreshing /\ rpc = "resp"
    /\ IF resp.err \/ resp.index <= lastIndex
       THEN /\ RefreshReturn
            /\ UNCHANGED lastIndex
       ELSE /\ lastIndex' = resp.index
            /\ rpc' = "idx"
            /\ UNCHANGED <<ctor, loop, resp, timerFired, unflushed, prev>>
    /\ UNCHANGED <<storeKV, storeIndex, options, values, watcher, cancelled, fired, ret>>

\* mutant: the callback is reached with the map not yet replaced
RefreshSwap_NotYet ==
    /\ Refreshing /\ rpc = "idx"
    /\ prev' = values
    /\ rpc' = "vals"
    /\ UNCHANGED <<storeKV, storeIndex, ctor, options, values, lastIndex, watcher, loop,
                   resp, timerFired, cancelled, unflushed, fired, ret>>

\* mutant: the pairs of the response are added to the map of before
RefreshSwap_Merge ==
    /\ Refreshing /\ rpc = "idx"
    /\ prev' = values
    /\ values' = resp.pairs @@ values
    /\ unflushed' = IF loop = "refresh" THEN DOMAIN resp.pairs ELSE {}
    /\ rpc' = "vals"
    /\ UNCHANGED <<storeKV, storeIndex, ctor, options, lastIndex, watcher, loop, resp,
                   timerFired, cancelled, fired, ret>>

\* c.values = updatedValues
RefreshSwap ==
    /\ Refreshing /\ rpc = "idx"
    /\ prev' = values
    /\ values' = resp.pairs
    /\ unflushed' = IF loop = "refresh" THEN DOMAIN resp.pairs ELSE {}
    /\ rpc' = "vals"
    /\ UNCHANGED <<storeKV, storeIndex, ctor, options, lastIndex, watcher, loop, resp,
                   timerFired, cancelled, fired, ret>>

\* mutant: every callback is invoked once one is registered
RefreshNotify_FanOut ==
    /\ Refreshing /\ rpc = "vals"
    /\ IF watcher # "nil"
       THEN /\ fired' = [cb \in Callbacks |-> fired[cb] + 1]
            /\ rpc' = "cb"
            /\ UNCHANGED <<ctor, loop, resp, timerFired, unflushed, prev>>
       ELSE /\ RefreshReturn
            /\ UNCHANGED fired
    /\ UNCHANGED <<storeKV, storeIndex, options, values, lastIndex, watcher, cancelled, ret>>

\* mutant: the callback is started on a goroutine of its own
RefreshNotify_Async ==
    /\ Refreshing /\ rpc = "vals"
    /\ fired' = IF watcher # "nil" THEN [fired EXCEPT ![watcher] = @ + 1] ELSE fired
    /\ RefreshReturn
    /\ UNCHANGED <<storeKV, storeIndex, options, values, lastIndex, watcher, cancelled, ret>>

\* if c.watcher != nil { c.watcher(c) }
RefreshNotify ==
    /\ Refreshing /\ rpc = "vals"
    /\ IF watcher # "nil"
       THEN /\ fired' = [fired EXCEPT ![watcher] = @ + 1]
            /\ rpc' = "cb"
            /\ UNCHANGED <<ctor, loop, resp, timerFired, unflushed, prev>>
       ELSE /\ RefreshReturn
            /\ UNCHANGED fired
    /\ UNCHANGED <<storeKV, storeIndex, options, values, lastIndex, watcher, cancelled, ret>>

\* the callback returns, and so does refresh()
CallbackReturn ==
    /\ Refreshing /\ rpc = "cb"
    /\ RefreshReturn
    /\ UNCHANGED <<storeKV, storeIndex, options, values, lastIndex, watcher, cancelled,
                   fired, ret>>

\* a store into the new map reaches the other goroutines
Flush(k) ==
    /\ k \in unflushed
    /\ unflushed' = unflushed \ {k}
    /\ UNCHANGED <<prev, storeKV, storeIndex, ctor, options, values, lastIndex, watcher, loop,
                   rpc, resp, timerFired, cancelled, fired, ret>>

----------------------------------------------------------------------------
(* listen: the goroutine's select *)

\* the duration the select's timer is armed with
TimerDuration == options.RefreshInterval

\* the timer of time.After(RefreshInterval) expires
TimerFire ==
    /\ loop = "select" /\ ~timerFired
    /\ timerFired' = TRUE
    /\ UNCHANGED <<prev, storeKV, storeIndex, ctor, options, values, lastIndex, watcher, loop,
                   rpc, resp, cancelled, unflushed, fired, ret>>

\* mutant: the timer case goes back to the select without refreshing
LoopTick_Skip ==
    /\ loop = "select" /\ timerFired
    /\ timerFired' = FALSE
    /\ UNCHANGED <<prev, storeKV, storeIndex, ctor, options, values, lastIndex, watcher, loop,
                   rpc, resp, cancelled, unflushed, fired, ret>>

\* mutant: the goroutine refreshes without waiting for the timer
LoopTick_NoWait ==
    /\ loop = "select"
    /\ loop' = "refresh"
    /\ timerFired' = FALSE
    /\ UNCHANGED <<prev, storeKV, storeIndex, ctor, options, values, lastIndex, watcher,
                   rpc, resp, cancelled, unflushed, fired, ret>>

\* case <-time.After(...): break, then source.refresh()
LoopTick ==
    /\ loop = "select" /\ timerFired
    /\ loop' = "refresh"
    /\ timerFired' = FALSE
    /\ UNCHANGED <<prev, storeKV, storeIndex, ctor, options, values, lastIndex, watcher,
                   rpc, resp, cancelled, unflushed, fired, ret>>

\* case <-source.options.Context.Done(): return
LoopDone ==
    /\ loop = "select" /\ cancelled
    /\ loop' = "exit"
    /\ timerFired' = FALSE
    /\ UNCHANGED <<prev, storeKV, storeIndex, ctor, options, values, lastIndex, watcher,
                   rpc, resp, cancelled, unflushed, fired, ret>>

----------------------------------------------------------------------------
(* The callers *)

\* the caller cancels the context it gave to NewSource
Cancel ==
    /\ ctor \in {"refresh", "ready"} /\ ~cancelled
    /\ cancelled' = TRUE
    /\ UNCHANGED <<prev, storeKV, storeIndex, ctor, options, values, lastIndex, watcher, loop,
                   rpc, resp, timerFired, unflushed, fired, ret>>

Watch(callback) ==
    /\ ctor = "ready"
    /\ watcher' = callback
    /\ UNCHANGED <<prev, storeKV, storeIndex, ctor, options, values, lastIndex, loop,
                   rpc, resp, timerFired, cancelled, unflushed, fired, ret>>

\* mutant: the accessors wait while refresh() runs
Get_Locked(kind, key) ==
    /\ ctor = "ready" /\ ~Refreshing
    /\ ret' = [op |-> kind, key |-> key] @@ Accessor(kind, Reader, key)
    /\ UNCHANGED <<prev, storeKV, storeIndex, ctor, options, values, lastIndex, watcher, loop,
                   rpc, resp, timerFired, cancelled, unflushed, fired>>

\* source.<Kind>(key), called on a goroutine of the program
Get(kind, key) ==
    /\ ctor = "ready"
    /\ ret' = [op |-> kind, key |-> key] @@ Accessor(kind, Reader, key)
    /\ UNCHANGED <<prev, storeKV, storeIndex, ctor, options, values, lastIndex, watcher, loop,
                   rpc, resp, timerFired, cancelled, unflushed, fired>>

\* source.String(key), called by the callback that refresh() is running: the
\* goroutine that stored the map reads it
CallbackGet(key) ==
    /\ Refreshing /\ rpc = "cb"
    /\ ret' = [op |-> "String", key |-> key, by |-> "callback"] @@ String(Self, key)
    /\ UNCHANGED <<prev, storeKV, storeIndex, ctor, options, values, lastIndex, watcher, loop,
                   rpc, resp, timerFired, cancelled, unflushed, fired>>

----------------------------------------------------------------------------

NoRet == [op |-> "none"]

Init ==
    /\ storeKV = InitKV
    /\ storeIndex = 1
    /\ ctor = "new"
    /\ options = NoOptions
    /\ values = <<>>
    /\ prev = <<>>
    /\ lastIndex = 0
    /\ watcher = "nil"
    /\ loop = "none"
    /\ rpc = "idle"
    /\ resp = NoResp
    /\ timerFired = FALSE
    /\ cancelled = FALSE
    /\ unflushed = {}
    /\ fired = [cb \in Callbacks |-> 0]
    /\ ret = NoRet

\* every step but the calls of NewSource and of the accessors
Running ==
    \/ \E k \in StoreKeys, v \in StoreVals : StorePut(k, v)
    \/ \E k \in StoreKeys : StoreDelete(k)
    \/ RefreshList
    \/ RefreshCheck
    \/ RefreshSwap
    \/ RefreshNotify
    \/ CallbackReturn
    \/ \E k \in StoreKeys : Flush(k)
    \/ TimerFire
    \/ LoopTick
    \/ LoopDone
    \/ Cancel
    \/ \E cb \in Callbacks : Watch(cb)

\* every step but the accessor calls, which change nothing but ret
Program ==
    \/ \E ctx \in Contexts, addr \in Addresses, name \in NsNames :
          NewSource(ctx, addr, name, EmptyDefaults)
    \/ Running

Next ==
    \/ Program
    \/ \E k \in GetKeys : Get("String", k)

Spec == Init /\ [][Next]_vars

\* kv.List answers with the store's current state
RefreshListCurrent ==
    /\ RefreshList
    /\ resp' = KVList(storeKV, storeIndex, options.Namespace.Name)

\* The goroutine keeps running: a timer that was armed expires, a select with
\* a ready case takes one, each statement of refresh() is followed by the
\* next, a callback returns; and, the hypothesis of the claims about
\* propagation, a list call that is made again and again gets the store's
\* current state at some point.
Fairness ==
    /\ WF_vars(TimerFire)
    /\ WF_vars(LoopTick \/ LoopDone)
    /\ WF_vars(RefreshList)
    /\ SF_vars(RefreshListCurrent)
    /\ WF_vars(RefreshCheck)
    /\ WF_vars(RefreshSwap)
    /\ WF_vars(RefreshNotify)
    /\ WF_vars(CallbackReturn)

\* the program under that scheduling; the accessor calls, which no other step
\* reads, are left out
FairSpec == Init /\ [][Program]_vars /\ Fairness

\* the program whose callbacks call String, no other goroutine calling it
NextCallback ==
    \/ Program
    \/ \E k \in GetKeys : CallbackGet(k)

SpecCallback == Init /\ [][NextCallback]_vars

\* the program constructed under namespace F with every requested interval
NextEvery ==
    \/ \E d \in Intervals : NewSourceEvery("ctx", "ok", NsF, EmptyDefaults, d)
    \/ NewSource("ctx", "ok", NsF, EmptyDefaults)
    \/ Running

SpecEvery == Init /\ [][NextEvery]_vars

----------------------------------------------------------------------------
(* The accessors alone: a source constructed against every store content,  *)
(* under every namespace and Defaults source, then read with every         *)
(* accessor.                                                               *)

\* raw values of the store: a number too wide for 8 bits, a padded number
\* with a fraction, plain text, a boolean, a list, a duration, a date
RawVals == {<<"1", "2", "3", "4">>,
            <<" ", "1", "2", ".", "5", " ">>,
            <<"x">>,
            <<"t", "r", "u", "e">>,
            <<"a", ",", " ", "b">>,
            <<"5", "m", "3", "s">>,
            <<"2", "0", "1", "9", "-", "1", "2", "-", "2", "5">>}

\* Defaults sources given to NewSource
DefaultsChoices == {EmptyDefaults, {KeyH}, {KeyH, KeyFH}}

\* store contents: every raw value under F/H, one value under B/H and H
StoreContents ==
    {kv \in UNION {[D -> RawVals] : D \in SUBSET {KeyFH, KeyBH, KeyH}} :
        \A k \in DOMAIN kv \ {KeyFH} : kv[k] = <<"1", "2", "3", "4">>}

\* NewSource has returned: its refresh listed the store, the goroutine waits
InitGet ==
    /\ storeKV \in StoreContents
    /\ storeIndex = 1
    /\ ctor = "ready"
    /\ \E name \in NsNames, dflt \in DefaultsChoices :
          /\ options = Applied("ctx", "ok", name, dflt)
          /\ values = KVList(storeKV, storeIndex, name).pairs
    /\ prev = values
    /\ lastIndex = 1
    /\ watcher = "nil"
    /\ loop = "select"
    /\ rpc = "idle"
    /\ resp = NoResp
    /\ timerFired = FALSE
    /\ cancelled = FALSE
    /\ unflushed = {}
    /\ fired = [cb \in Callbacks |-> 0]
    /\ ret = NoRet

NextGet == \E kind \in Kinds, k \in GetKeys : Get(kind, k)

SpecGet == InitGet /\ [][NextGet]_vars

----------------------------------------------------------------------------
(* Properties *)

\* callback invocations so far
Total == fired["a"] + fired["b"]

\* refresh() takes its next step (every other action leaves rpc alone)
RefreshStep == rpc' # rpc

\* C1: while NewSource runs its refresh, no step invokes a callback, whatever
\* kv.List returned: the invocation counts stay as they are and refresh never
\* enters a callback.
C1_NoCallbackAtConstruction ==
    [][ctor = "refresh" => fired' = fired /\ rpc' # "cb"]_vars

\* the refresh of NewSource has replaced the map and reaches the watcher test
C1_Witness == ctor = "refresh" /\ rpc = "vals" /\ values # <<>>

\* C2: a refresh after construction goes on to replace the map exactly when
\* its response is no error and carries a version above the applied one; with
\* a callback registered, the step that ends such a refresh's swap invokes
\* that callback once and no other, and every other step of the program
\* invokes none.
C2_OncePerEffectiveRefresh ==
    [][/\ (loop = "refresh" /\ rpc = "resp" /\ RefreshStep)
            => ((rpc' = "idx") <=> (~resp.err /\ resp.index > lastIndex))
       /\ IF loop = "refresh" /\ rpc = "vals" /\ RefreshStep /\ watcher # "nil"
          THEN fired' = [fired EXCEPT ![watcher] = @ + 1]
          ELSE fired' = fired]_vars

\* the goroutine's refresh has applied a newer version, a callback is registered
C2_Witness == loop = "refresh" /\ rpc = "cb" /\ lastIndex > 1 /\ Total = 1

\* C3 (as claimed): once the context is cancelled, no step taken after
\* NewSource returned replaces the map or the version.
C3_FrozenAfterCancel ==
    [][(cancelled /\ ctor = "ready") => values' = values /\ lastIndex' = lastIndex]_vars

\* C4: when the response is no error and its version is at most the applied
\* one, refresh's step on it ends the refresh and leaves the map, the version
\* and the invocation counts as they were.
C4_StaleIsNoOp ==
    [][(rpc = "resp" /\ RefreshStep /\ ~resp.err /\ resp.index <= lastIndex)
         => /\ values' = values /\ lastIndex' = lastIndex /\ fired' = fired
            /\ rpc' = "idle"]_vars

\* the goroutine refreshes a second time against an unchanged store, a
\* callback being registered
C4_Witness ==
    /\ loop = "refresh" /\ rpc = "resp" /\ ~resp.err
    /\ resp.index = lastIndex /\ watcher # "nil"

\* C5: when kv.List failed, refresh's step on it ends the refresh, leaves the
\* map, the version and the invocation counts as they were, makes NewSource
\* return no error, and leaves the copy of the source the accessors read as
\* it was, so that String returns afterwards what it returned before.
C5_FailedListKeepsState ==
    [][(rpc = "resp" /\ RefreshStep /\ resp.err)
         => /\ values' = values /\ lastIndex' = lastIndex /\ fired' = fired
            /\ rpc' = "idle" /\ ctor' = "ready"
            /\ Reader' = Reader
            /\ \A k \in GetKeys : String(Reader, k)' = String(Reader, k)]_vars

\* the goroutine's list fails while the source holds values
C5_Witness == loop = "refresh" /\ rpc = "resp" /\ resp.err /\ values # <<>>

\* C6: no step lowers lastIndex; a step that changes it sets it to the
\* version of a response that is above the old value, and the same refresh
\* then stores that response's pairs as the map.
C6_VersionMonotonic ==
    [][/\ lastIndex' >= lastIndex
       /\ lastIndex' # lastIndex
            => ~resp.err /\ resp.index = lastIndex' /\ rpc' = "idx" /\ resp' = resp
       /\ (rpc = "idx" /\ RefreshStep) => values' = resp.pairs /\ lastIndex' = resp.index]_vars

\* a response older than the applied version arrives
C6_Witness == rpc = "resp" /\ ~resp.err /\ resp.index < lastIndex

\* the receiver copy that holds the map of before the running refresh's swap
Before == [values |-> prev, options |-> options]

\* C7 (as claimed): String called on another goroutine while refresh runs
\* returns what the whole map of before the swap gives or what the whole map
\* of after the swap gives.
C7_GetSeesWholeSnapshot ==
    [][\A k \in GetKeys :
          Get("String", k) => \E c \in {Before, Self} :
                                 ret' = [op |-> "String", key |-> k] @@ String(c, k)]_vars

\* what String(key) returns once the store's current content is the map
StoreString(k) ==
    String([values  |-> KVList(storeKV, storeIndex, options.Namespace.Name).pairs,
            options |-> options], k)

\* the goroutine waits in select, having applied the store's current version:
\* String returns the store's values
Caught ==
    /\ loop = "select" /\ lastIndex = storeIndex
    /\ \A k \in GetKeys : String(Reader, k) = StoreString(k)

\* C8: while the context is not cancelled and list calls get through, every
\* state of the store reached after construction is followed by a state in
\* which the goroutine has applied that version or a later one and waits
\* again, String then returning the store's values if the store has not
\* changed since; and the refresh that applies a version with a callback
\* registered invokes that callback once.
C8_EventuallyReflected ==
    /\ \A i \in 1..MaxIndex :
          (ctor = "ready" /\ options.Address = "ok" /\ storeIndex = i)
             ~> (cancelled \/ (loop = "select" /\ lastIndex >= i))
    /\ [](loop = "select" /\ lastIndex = storeIndex => Caught)
    /\ [][(loop = "refresh" /\ rpc = "vals" /\ RefreshStep /\ watcher # "nil")
            => fired'[watcher] = fired[watcher] + 1 /\ rpc' = "cb"]_vars

\* the store was changed after construction, a callback was registered, and
\* the goroutine has caught up and invoked it once
C8_Witness ==
    /\ Caught /\ ~cancelled /\ storeIndex = 2 /\ watcher = "a" /\ fired["a"] = 1
    /\ KeyFH \in DOMAIN values /\ values[KeyFH] # InitKV[KeyFH]

\* what the last accessor call returned
Returned == [val |-> ret.val, ok |-> ret.ok]

\* the key of the last accessor call, qualified, is in the map
RetPresent == Qualify(options.Namespace, ret.key) \in DOMAIN values

\* the massage function behind each accessor kind
Parse(kind, s) ==
    CASE kind = "String"                                    -> [val |-> s, ok |-> TRUE]
      [] kind = "StringSlice"                               -> StringToSlice(s)
      [] kind \in {"Int", "Int8", "Int16", "Int32", "Int64"} -> StringToInt64(s)
      [] kind \in {"Uint", "Uint8", "Uint16", "Uint32", "Uint64"} -> StringToUint64(s)
      [] kind \in {"Float32", "Float64"}                    -> StringToFloat64(s)
      [] kind = "Bool"                                      -> StringToBool(s)
      [] kind = "Duration"                                  -> StringToDuration(s)
      [] kind = "Time"                                      -> StringToTime(s)

\* C9: an accessor of any kind, called with a key whose qualified form is not
\* in the map, returns what the Defaults source returns for that kind and the
\* key as given; with the empty Defaults source that is the kind's zero value
\* and FALSE.
C9_AbsentKeyDelegates ==
    (ret.op # "none" /\ ~RetPresent)
       => /\ Returned = DefaultsGet(options.Defaults, ret.op, ret.key)
          /\ options.Defaults = EmptyDefaults
               => Returned = [val |-> Zero(ret.op), ok |-> FALSE]

\* under namespace F an accessor was called with a key that is absent, the
\* Defaults source holding the key as given and not its qualified form
C9_Witness ==
    /\ ret.op = "Int16" /\ ~RetPresent /\ options.Namespace.Name = NsF
    /\ ret.key \in options.Defaults
    /\ Qualify(options.Namespace, ret.key) \notin options.Defaults
    /\ ret.ok

\* C10: an accessor of any kind, called with a key whose qualified form is in
\* the map with a value that, trimmed, does not parse as that kind, returns
\* the kind's zero value and FALSE, whatever the Defaults source holds.
C10_ParseFailureNotDefaulted ==
    (ret.op # "none" /\ RetPresent
       /\ ~Parse(ret.op, TrimSpace(values[Qualify(options.Namespace, ret.key)])).ok)
       => Returned = [val |-> Zero(ret.op), ok |-> FALSE]

\* Int8 was called with a key that holds plain text, the Defaults source
\* holding that key
C10_Witness ==
    /\ ret.op = "Int8" /\ RetPresent /\ ret.key \in options.Defaults
    /\ values[Qualify(options.Namespace, ret.key)] = <<"x">>
    /\ ~ret.ok

\* the qualified key of the last accessor call
RetKey == Qualify(options.Namespace, ret.key)

\* C11: under a namespace with a name, an accessor called with a key reads
\* the map's entry under name + delimiter + key and no other: String returns
\* that entry's trimmed value and TRUE, or what the Defaults source returns
\* when the map has no such entry, whatever the store holds under another
\* prefix or under the bare key; under the empty name the entry is the one
\* under the key as given.
C11_NamespaceScoped ==
    ret.op # "none" =>
       /\ RetKey = IF options.Namespace.Name = <<>> THEN ret.key
                   ELSE options.Namespace.Name \o Slash \o ret.key
       /\ ret.op = "String"
            => Returned = IF RetKey \in DOMAIN values
                          THEN [val |-> TrimSpace(values[RetKey]), ok |-> TRUE]
                          ELSE DefaultsGet(options.Defaults, "String", ret.key)
       /\ (options.Namespace.Name = NsF /\ ret.key = KeyH
             /\ KeyFH \notin DOMAIN storeKV /\ options.Defaults = EmptyDefaults)
            => ~ret.ok

\* under namespace F, String was called with key H while the store holds H
\* under prefix B and bare, and not under prefix F
C11_Witness ==
    /\ ret.op = "String" /\ ret.key = KeyH /\ options.Namespace.Name = NsF
    /\ DOMAIN storeKV = {KeyBH, KeyH} /\ ~ret.ok

\* the width of the narrowed integer kinds
Width(kind) == IF kind \in {"Int8", "Uint8"} THEN 8 ELSE 16

\* C12: an integer accessor called with a key whose entry parses as a 64-bit
\* integer returns TRUE and a value of its width that differs from the
\* parsed number by a multiple of 2^width, in the signed range for the
\* signed kinds and the unsigned range for the others; the kinds of 64 bits
\* return the parsed number; Int8 of "1234" is -46 and Uint8 of "1234" is 210.
C12_IntegerNarrowing ==
    LET p == Parse(ret.op, TrimSpace(values[RetKey]))
        m == Pow2(Width(ret.op)) IN
    (ret.op # "none" /\ RetPresent) =>
       /\ (ret.op \in {"Int8", "Int16", "Uint8", "Uint16"} /\ p.ok)
            => /\ ret.ok
               /\ (ret.val - p.val) % m = 0
               /\ IF ret.op \in {"Int8", "Int16"}
                  THEN ret.val \in -(m \div 2)..(m \div 2 - 1)
                  ELSE ret.val \in 0..(m - 1)
       /\ (ret.op \in {"Int64", "Uint64"} /\ p.ok) => Returned = p
       /\ values[RetKey] = <<"1", "2", "3", "4">>
            => /\ ret.op = "Int8" => Returned = [val |-> -46, ok |-> TRUE]
               /\ ret.op = "Uint8" => Returned = [val |-> 210, ok |-> TRUE]

\* Uint8 was called with a key that holds "1234" and returned 210
C12_Witness ==
    /\ ret.op = "Uint8" /\ RetPresent
    /\ values[RetKey] = <<"1", "2", "3", "4">> /\ ret.val = 210 /\ ret.ok

\* C13: when NewSource was called without a context, without an address or
\* with an address no client can be built for, it has returned an error and
\* no source, and only then; no list call was or is made (no response, no
\* version, no values) and no goroutine exists.
C13_ConstructionFails ==
    /\ ctor # "new" =>
          (ctor = "failed"
             <=> (options.Context = "nil" \/ options.Address \in {"", "bad"}))
    /\ ctor = "failed" =>
          /\ loop = "none" /\ rpc = "idle" /\ resp = NoResp
          /\ lastIndex = 0 /\ values = <<>> /\ Total = 0

\* NewSource failed for its address alone, and the store went on changing
C13_Witness ==
    /\ ctor = "failed" /\ options.Context = "ctx" /\ options.Address = ""
    /\ storeIndex > 1

\* C14: a list that fails in NewSource makes NewSource return the source and
\* no error, the goroutine waiting in its select; as long as no list has
\* succeeded the map is empty and every accessor returns what the Defaults
\* source returns, the zero value and FALSE under the empty one; and the
\* first response that is no error is applied, its version and then its
\* pairs replacing those of the source.
C14_UnreachableStore ==
    /\ [][(ctor = "refresh" /\ rpc = "resp" /\ resp.err /\ RefreshStep)
            => ctor' = "ready" /\ loop' = "select" /\ rpc' = "idle"]_vars
    /\ [](lastIndex = 0 =>
            /\ values = <<>>
            /\ \A kind \in Kinds, k \in GetKeys :
                  /\ Accessor(kind, Reader, k)
                        = DefaultsGet(options.Defaults, kind, k)
                  /\ options.Defaults = EmptyDefaults
                       => Accessor(kind, Reader, k) = [val |-> Zero(kind), ok |-> FALSE])
    /\ [][(lastIndex = 0 /\ rpc = "resp" /\ ~resp.err /\ RefreshStep)
            => rpc' = "idx" /\ lastIndex' = resp.index /\ resp' = resp]_vars
    /\ [][(rpc = "idx" /\ RefreshStep) => values' = resp.pairs]_vars

\* NewSource returned after a failed list, and the goroutine's list is the
\* first to succeed, with pairs of the namespace
C14_Witness ==
    /\ ctor = "ready" /\ loop = "refresh" /\ rpc = "resp" /\ ~resp.err
    /\ lastIndex = 0 /\ resp.pairs # <<>>

\* C15 (as claimed): NewSource called with an interval below one second
\* stores ten seconds in the options, called with one of a second or more it
\* stores that interval, called with none it stores ten seconds; and the
\* goroutine's timer is never armed with less than a second.
C15_IntervalAtLeastSecond ==
    /\ [][\A d \in Intervals :
            NewSourceEvery("ctx", "ok", NsF, EmptyDefaults, d)
               => options'.RefreshInterval = IF d < Second THEN DefaultInterval ELSE d]_vars
    /\ [][NewSource("ctx", "ok", NsF, EmptyDefaults)
            => options'.RefreshInterval = DefaultInterval]_vars
    /\ [](loop = "select" => TimerDuration >= Second)

\* C16: Watch stores its callback in the one slot, which no other step
\* changes, so the slot holds the callback registered last; a step invokes
\* at most one callback, the one in the slot, once, and only as the step of
\* refresh that follows the swap; and that step of a refresh of the goroutine
\* invokes the callback in the slot whenever there is one.
C16_LastRegistrationWins ==
    [][/\ \A cb \in Callbacks : Watch(cb) => watcher' = cb
       /\ watcher' # watcher => \E cb \in Callbacks : Watch(cb)
       /\ \A cb \in Callbacks :
             fired'[cb] # fired[cb]
                => /\ cb = watcher /\ fired'[cb] = fired[cb] + 1
                   /\ rpc = "vals" /\ rpc' = "cb"
       /\ Total' <= Total + 1
       /\ (loop = "refresh" /\ rpc = "vals" /\ RefreshStep /\ watcher # "nil")
             => fired'[watcher] = fired[watcher] + 1]_vars

\* callback a was registered and invoked, then b was registered, and the
\* next refresh that replaced the map invoked b
C16_Witness ==
    /\ watcher = "b" /\ rpc = "cb" /\ lastIndex = 3
    /\ fired = [cb \in Callbacks |-> 1]

\* the receiver copy that holds the pairs of the response being applied
Applying == [values |-> resp.pairs, options |-> options]

\* C17: refresh invokes the callback with the map and the version of the
\* response in place, and String called by the callback returns what the
\* pairs of that response give.
C17_CallbackSeesNewSnapshot ==
    /\ [](rpc = "cb" => values = resp.pairs /\ lastIndex = resp.index)
    /\ [][\A k \in GetKeys :
            CallbackGet(k)
               => ret' = [op |-> "String", key |-> k, by |-> "callback"]
                           @@ String(Applying, k)]_vars

\* the callback called String with a key whose value the refresh changed
C17_Witness ==
    /\ rpc = "cb" /\ ret.op = "String" /\ "by" \in DOMAIN ret
    /\ Returned = String(Self, ret.key)
    /\ Returned # String(Before, ret.key)
    /\ String(Before, ret.key).ok

\* C18 (as claimed): a refresh of the goroutine that is the first to install
\* a map (it applies version 1, so the version before it was 0 and the
\* refresh of NewSource installed nothing) invokes no callback.
C18_NoCallbackOnFirstSnapshot ==
    [][(loop = "refresh" /\ rpc = "vals" /\ resp.index = 1 /\ RefreshStep)
         => fired' = fired /\ rpc' # "cb"]_vars

\* C19 (as claimed): once the context is cancelled, the goroutine's select
\* does not go on to a refresh, a refresh of the goroutine makes no list
\* call, and the goroutine that has exited stays so.
C19_CancelIsTerminal ==
    [][/\ (cancelled /\ loop = "select") => loop' # "refresh"
       /\ (cancelled /\ loop = "refresh" /\ rpc = "idle") => rpc' = "idle"
       /\ loop = "exit" => loop' = "exit"]_vars

\* C20: the goroutine ends only from its select with the context cancelled;
\* a failed list of the goroutine ends the refresh and leads back to the
\* select with a new timer; a refresh of the goroutine begins only when the
\* timer has expired, and a list call is made only as the first step of a
\* refresh; and, the context not being cancelled, the waiting goroutine goes
\* on to a refresh whose list call returns.
C20_ExitsOnlyOnCancel ==
    /\ [][(loop' = "exit" /\ loop # "exit") => cancelled /\ loop = "select"]_vars
    /\ [][(loop = "refresh" /\ rpc = "resp" /\ resp.err /\ RefreshStep)
            => loop' = "select" /\ rpc' = "idle" /\ ~timerFired']_vars
    /\ [][(loop' = "refresh" /\ loop # "refresh") => loop = "select" /\ timerFired]_vars
    /\ [][(rpc' = "resp" /\ rpc # "resp") => Refreshing /\ rpc = "idle"]_vars
    /\ (loop = "select" /\ ~cancelled)
          ~> (cancelled \/ (loop = "refresh" /\ rpc = "resp"))

\* against a store that never answers, the list of NewSource failed and the
\* goroutine, not cancelled, has made a list call that failed as well
C20_Witness ==
    /\ options.Address = "down" /\ loop = "refresh" /\ rpc = "resp" /\ resp.err
    /\ ~cancelled /\ lastIndex = 0

\* C21: until the refresh of NewSource has returned there is no goroutine;
\* NewSource runs one refresh with one list call, and the step that ends it
\* makes NewSource return and starts the goroutine in its select with a
\* timer newly armed; NewSource never refreshes again; and the goroutine
\* begins a refresh only from its select with the timer expired, the timer
\* expiring only while the goroutine waits.
C21_StartupOrdering ==
    /\ [](ctor \in {"new", "failed", "refresh"} => loop = "none" /\ ~timerFired)
    /\ [](ctor = "ready" => loop # "none")
    /\ [][(ctor = "refresh" /\ rpc' = "idle" /\ rpc # "idle")
            => ctor' = "ready" /\ loop' = "select" /\ ~timerFired']_vars
    /\ [][(ctor = "refresh" /\ rpc' = "resp" /\ rpc # "resp") => rpc = "idle"]_vars
    /\ [][ctor' = "refresh" => ctor \in {"new", "refresh"}]_vars
    /\ [][(loop' = "refresh" /\ loop # "refresh") => loop = "select" /\ timerFired]_vars
    /\ [][(timerFired' /\ ~timerFired) => loop = "select" /\ ctor = "ready"]_vars

\* NewSource returned with the store's values, the timer expired, and the
\* goroutine begins its refresh
C21_Witness ==
    /\ ctor = "ready" /\ loop = "refresh" /\ rpc = "idle"
    /\ lastIndex = 1 /\ values # <<>>

\* C22 (as claimed): once NewSource has returned, a step that changes the
\* version or the map changes both, to the version and the pairs of one
\* response.
C22_ReplacedTogether ==
    [][(ctor = "ready" /\ (lastIndex' # lastIndex \/ values' # values))
         => lastIndex' = resp.index /\ values' = resp.pairs]_vars

\* C23: the map changes only by the step of refresh that stores the
\* response's pairs, which become the whole map, values as the store holds
\* them; when that refresh returns, every goroutine reads that map, and
\* String called with a key that the map of before held and the response
\* does not returns what the Defaults source returns.
C23_WholesaleReplacement ==
    /\ [][values' # values => rpc = "idx" /\ RefreshStep]_vars
    /\ [][(rpc = "idx" /\ RefreshStep) => values' = resp.pairs]_vars
    /\ [](rpc \in {"vals", "cb"} =>
            /\ values = resp.pairs
            /\ \A q \in DOMAIN values : q \in DOMAIN storeKV => values[q] \in StoreVals)
    /\ [][(rpc \in {"vals", "cb"} /\ rpc' = "idle")
            => /\ values' = resp.pairs
               /\ Reader' = Self'
               /\ \A k \in GetKeys :
                     LET q == Qualify(options.Namespace, k) IN
                     (q \in DOMAIN prev /\ q \notin DOMAIN resp.pairs)
                        => String(Reader, k)'
                             = DefaultsGet(options.Defaults, "String", k)]_vars

\* the goroutine's refresh has replaced a map that held F/H by the pairs of
\* a response that does not
C23_Witness ==
    /\ loop = "refresh" /\ rpc = "vals"
    /\ KeyFH \in DOMAIN prev /\ KeyFH \notin DOMAIN values
    /\ options.Namespace.Name = NsF

\* a step of the store, of Watch or of an accessor call: the only steps that
\* change the store, the callback slot or the result of the last call
Outside ==
    \/ storeKV' # storeKV \/ storeIndex' # storeIndex
    \/ watcher' # watcher
    \/ ret' # ret

\* C24: a put or a delete in the store, a Watch and a String call leave the
\* map, the version and the copy the accessors read as they are; the map and
\* the version change only by a step of refresh; and String called while
\* no refresh has replaced the map since returns the value of the map,
\* whatever the store has become.
C24_ChangesOnlyThroughRefresh ==
    [][/\ Outside => /\ values' = values /\ lastIndex' = lastIndex
                     /\ Reader' = Reader
       /\ (values' # values \/ lastIndex' # lastIndex) => Refreshing /\ RefreshStep
       /\ (ret' # ret /\ rpc \in {"idle", "resp", "idx"})
             => ret' = [op |-> "String", key |-> ret'.key] @@ String(Self, ret'.key)]_vars

\* the store holds a newer value for a key than the map, no refresh runs,
\* and String returned the map's value
C24_Witness ==
    /\ storeIndex > lastIndex /\ lastIndex > 0 /\ rpc = "idle" /\ loop = "select"
    /\ ret.op = "String" /\ ret.ok /\ Returned = String(Self, ret.key)
    /\ RetKey \in DOMAIN storeKV /\ ret.val # TrimSpace(storeKV[RetKey])

\* the goroutine's refresh has called kv.List, which has not returned
ListPending == loop = "refresh" /\ rpc = "idle"

\* C25: once NewSource has returned, String can be called and returns in
\* one step in every state, among them those in which the
\* goroutine's list call has not returned and those in which the callback
\* runs; while the list call has not returned, the goroutine arms no timer
\* and begins no other refresh.
C25_ReadersNeverBlocked ==
    /\ ctor = "ready" => \A k \in GetKeys : ENABLED Get("String", k)
    /\ ListPending => ~ENABLED TimerFire /\ ~ENABLED LoopTick /\ ~ENABLED LoopDone

\* String returned a value while the goroutine waits for a list call, the
\* store holding a version the source has not applied
C25_Witness ==
    /\ ListPending /\ storeIndex > lastIndex /\ watcher # "nil"
    /\ ret.op = "String" /\ ret.ok /\ Returned = String(Reader, ret.key)

\* C26: the refresh of NewSource and the goroutine never run together, and
\* the statements of refresh run only inside the one refresh that is
\* running; a refresh of the goroutine begins only from its select, the one
\* before having returned; the step that invokes a callback keeps the
\* goroutine inside refresh, where it stays, no timer armed, until the
\* callback returns; and the goroutine comes back to its select, arming the
\* timer, only by the step that ends refresh or by the callback's return.
C26_SingleWriter ==
    /\ [](ctor = "refresh" => loop = "none")
    /\ [](rpc # "idle" => Refreshing)
    /\ [](loop = "refresh" => ~timerFired)
    /\ [][(loop' = "refresh" /\ loop # "refresh") => loop = "select" /\ rpc = "idle"]_vars
    /\ [][fired' # fired => rpc' = "cb" /\ loop' = loop /\ ctor' = ctor]_vars
    /\ [][rpc = "cb" => \/ rpc' = "cb" /\ loop' = loop /\ ~timerFired'
                        \/ rpc' = "idle" /\ loop' = "select" /\ ~timerFired']_vars
    /\ [][(loop = "refresh" /\ loop' # "refresh")
            => rpc \in {"resp", "vals", "cb"} /\ rpc' = "idle" /\ loop' = "select"]_vars

\* the callback runs in the goroutine's refresh while the store has changed
\* again: the next tick waits for the callback
C26_Witness ==
    /\ loop = "refresh" /\ rpc = "cb" /\ storeIndex > lastIndex /\ ~timerFired
    /\ Total = 1

====
